---------------------------- MODULE Spec2Model ----------------------------
(***************************************************************************)
(* Model of the HotelData forecast-to-derived-metrics pipeline:            *)
(*   data_preprocessing.load_and_preprocess_data                           *)
(*   forecasting.forecast_peak_times                                       *)
(*   ingredient_prediction.predict_ingredient_usage                        *)
(*   staffing_optimization.optimize_staffing                               *)
(*   staffing_optimization.calculate_staffing_costs                        *)
(*   notifications.format_*_alert                                          *)
(*   app.py: the analysis run that chains them inside one try block        *)
(*                                                                         *)
(* Time is a counter of ticks, TicksPerDay ticks to a calendar day; a      *)
(* timestamp is a tick, a calendar date is a day number, midnight of day d *)
(* is the tick d * TicksPerDay.  All timestamps are timezone-naive.        *)
(* Real numbers are fixed-point integers: order volumes (yhat) in tenths,  *)
(* recipe quantities and ingredient quantities in hundredths, the          *)
(* preparation-time factor in tenths.  Arithmetic is exact on these; the   *)
(* role shares are products of doubles and are modelled as such.           *)
(***************************************************************************)
EXTENDS Integers, Sequences, FiniteSets, TLC

\* ------------------------------------------------------------- bounds
TicksPerDay == 2
MaxTime == 5
MaxRows == 2
MaxPoints == 2
MaxCalls == 2
\* fixed-point resolutions: order volumes in 1/YScale, factors in 1/PScale
YScale == 10
PScale == 10
MaxHorizon == 2
\* runs of the app script in one session
MaxRuns == 2

\* ------------------------------------------------------------ helpers
None == "None"
\* a missing number (NaN) and a missing timestamp (NaT): values no cell holds;
\* as in pandas, NaN > 0 and NaN >= 0 are false
NaN == 0 - 1000000
NaT == 0 - 1

Pick(seq, i) == seq[(i % Len(seq)) + 1]

Max(a, b) == IF a >= b THEN a ELSE b

Range(f) == {f[x] : x \in DOMAIN f}

RECURSIVE SumSet(_, _)
\* the sum of f[x] over the x in S
SumSet(S, f) ==
    IF S = {} THEN 0
    ELSE LET x == CHOOSE y \in S : TRUE
         IN  f[x] + SumSet(S \ {x}, f)

DayOf(t) == t \div TicksPerDay
HourOf(t) == t % TicksPerDay
Midnight(d) == d * TicksPerDay

\* ---------------------------------------------------- raw order tables
\* Cell values of the uploaded table.  A timestamp cell is a string:
\* <<"ts", t>> is the ISO text of tick t, <<"bad">> is text that does not
\* parse, <<"nan">> is a missing cell.
QtyVals == <<2, NaN, 0, -1>>
PriceVals == <<3, NaN, 0, -1>>
CreatedVals == [k \in 1..(MaxTime + 2) |-> <<"ts", k - 1>>] \o <<<<"nan">>, <<"bad">>>>
StatusVals == <<"Completed", "pending", "canceled", "CANCELED", None>>
ItemVals == <<"Burger", "Pizza", "Soda">>

RowCycle == Len(QtyVals) * Len(PriceVals) * Len(CreatedVals)

\* The i-th row of a fixed cycle of raw rows: quantity, price and createdAt
\* run through their full product; the other cells vary with i.
RawRowAt(i) ==
    LET c == Pick(CreatedVals, i \div (Len(QtyVals) * Len(PriceVals)))
    IN  [itemName |-> Pick(ItemVals, i),
         itemQuantity |-> Pick(QtyVals, i),
         itemPrice |-> Pick(PriceVals, i \div Len(QtyVals)),
         status |-> Pick(StatusVals, i),
         createdAt |-> c,
         updatedAt |-> IF i % 11 = 10 THEN <<"bad">>
                       ELSE IF i % 11 = 5 THEN <<"nan">>
                       ELSE IF Len(c) = 1 THEN <<"ts", 0>>
                       ELSE <<"ts", Max(c[2] + (i % 3) - 1, 0)>>]

\* ------------------------------------------------- forecast series
\* Order volumes a forecast point can carry (in 1/YScale): negative, zero,
\* fractional, large enough to need more than the minimum staff, and the
\* volume of a large house (1080 orders a day).
YVals ==
    <<10 * YScale, 0 - ((3 * YScale) \div 2), 0, (106 * YScale) \div 10, 50 * YScale,
      1080 * YScale>>

TrioCycle == Len(YVals) * Len(YVals) * Len(YVals)

\* The j-th (yhat, yhat_lower, yhat_upper) of the full product of YVals
TrioAt(j) ==
    [yhat |-> Pick(YVals, j),
     yhat_lower |-> Pick(YVals, j \div Len(YVals)),
     yhat_upper |-> Pick(YVals, j \div (Len(YVals) * Len(YVals)))]

\* one row of the frame Prophet's predict returns
ForecastPoint(ds, j) == [ds |-> ds] @@ TrioAt(j)

\* a series of n consecutive days from day d0, its values a window of the
\* trio cycle starting at seed
Series(d0, n, seed) ==
    [i \in 1..n |-> ForecastPoint(Midnight(d0 + i - 1), seed + 7 * (i - 1))]

ForecastSeries ==
    {Series(d0, n, seed) : d0 \in 0..(DayOf(MaxTime) + 1), n \in 1..MaxPoints,
                           seed \in 0..(TrioCycle - 1)}

RawTables ==
    {[k \in 1..n |-> RawRowAt(seed + k - 1)] : seed \in 0..(RowCycle - 1), n \in 0..MaxRows}

\* Raw tables of valid past rows: the item and quantity of row k follow one
\* cycle (index a), the creation time another (index b).
GoodQtyVals == <<1, 3, 2>>
\* the itemName cell of a row: a name, or empty (NaN); no step of the
\* preprocessing looks at it
GoodItemVals == ItemVals \o <<None>>

GoodRow(a, b) ==
    [itemName |-> Pick(GoodItemVals, a \div 2),
     itemQuantity |-> Pick(GoodQtyVals, a),
     itemPrice |-> 3,
     status |-> Pick(StatusVals, a),
     createdAt |-> <<"ts", b % (MaxTime + 1)>>,
     updatedAt |-> <<"ts", (b % (MaxTime + 1)) + 1>>]

GoodRawTable(a, b, n) == [k \in 1..n |-> GoodRow(a + k - 1, b + 5 * (k - 1))]

\* ---------------------------------------------------- recipe tables
\* item -> ingredient -> quantity per unit item, in hundredths
RecipeTables ==
    {<<>>,
     "Burger" :> ("Flour" :> 100),
     ("Burger" :> ("Flour" :> 100 @@ "Cheese" :> 25))
        @@ ("Pizza" :> ("Flour" :> 200 @@ "Cheese" :> 50 @@ "Tomatoes" :> 10)),
     ("Pizza" :> ("Cheese" :> 33)) @@ ("Soda" :> ("Sugar" :> 7))
        @@ ("Fries" :> ("Oil" :> 150)),
     ("Burger" :> ("Flour" :> 100)) @@ ("Pizza" :> ("Cheese" :> 100))
        @@ ("Soda" :> ("Flour" :> 100)),
     ("Burger" :> ("Flour" :> 120 @@ "Eggs" :> 30 @@ "Butter" :> 5 @@ "Cheese" :> 45))
        @@ ("Pizza" :> ("Flour" :> 200 @@ "Tomatoes" :> 60 @@ "Oil" :> 15 @@ "Rice" :> 10))}

VARIABLES
    now,        \* the wall clock, in ticks
    df_raw,     \* the caller's raw table (a sequence of rows)
    df,         \* the cleaned table returned by load_and_preprocess_data
    pre_call,   \* the last call of load_and_preprocess_data: what it read and did
    forecast_result,   \* the forecast series (frame returned by forecast_peak_times)
    staffing_results,  \* the list returned by optimize_staffing
    staffing_call,     \* the last call of optimize_staffing: its arguments
    cost_call,         \* the last call of calculate_staffing_costs: arguments, result
    ingredient_mapping,   \* the session's item -> ingredient mapping
    ingredient_forecast,  \* the dict returned by predict_ingredient_usage
    ingredient_call,      \* the last call of predict_ingredient_usage: its arguments
    forecast_call,        \* the last call of forecast_peak_times: arguments, DailyCount
    peak_log,             \* calls of format_peak_time_alert: arguments and result
    inventory_log,        \* calls of format_inventory_alert: arguments and result
    staffing_log,         \* calls of format_staffing_alert: arguments and result
    run,                  \* the current run of the app script: position, horizon, error
    session_state         \* the keys set in st.session_state

app == <<run, session_state>>
calls == <<pre_call, staffing_call, ingredient_call, forecast_call, cost_call>>
logs == <<peak_log, inventory_log, staffing_log>>

vars == <<now, df_raw, df, forecast_result, staffing_results, ingredient_mapping,
          ingredient_forecast, calls, logs, app>>

\* ------------------------------------------- data_preprocessing.py
\* pd.to_datetime on one cell
to_datetime(cell) == IF cell[1] = "ts" THEN cell[2] ELSE NaT

\* pd.to_datetime raises on text that is no timestamp
Parses(rows, col) == \A k \in DOMAIN rows : rows[k][col][1] # "bad"

fillna(v, d) == IF v = NaN THEN d ELSE v

str_lower(s) ==
    IF s = "Completed" THEN "completed"
    ELSE IF s = "CANCELED" THEN "canceled"
    ELSE s

\* df.copy(): a new object holding the same values
DfCopyAlias(t) == [obj |-> "caller", val |-> t]

DfCopy(t) == [obj |-> "new", val |-> t]

\* line 23
ParseCreated(rows) == [k \in DOMAIN rows |-> [rows[k] EXCEPT !.createdAt = to_datetime(@)]]
\* line 24
ParseUpdated(rows) == [k \in DOMAIN rows |-> [rows[k] EXCEPT !.updatedAt = to_datetime(@)]]

\* lines 27-35: the derived time columns of one row
TimeFeatures(r) ==
    LET c == r.createdAt
        u == r.updatedAt
    IN  IF c = NaT
        THEN [order_hour |-> NaN, order_day |-> NaN, order_date |-> NaN,
              is_weekend |-> FALSE, processing_time |-> NaN]
        ELSE [order_hour |-> HourOf(c), order_day |-> DayOf(c) % 7,
              order_date |-> DayOf(c), is_weekend |-> (DayOf(c) % 7 >= 5),
              processing_time |-> IF u = NaT THEN NaN ELSE u - c]

AddTimeFeatures(rows) == [k \in DOMAIN rows |-> rows[k] @@ TimeFeatures(rows[k])]

\* lines 38-39
FillMissing(rows) ==
    [k \in DOMAIN rows |->
        [rows[k] EXCEPT !.itemPrice = fillna(@, 0), !.itemQuantity = fillna(@, 0)]]

\* lines 42-43
QuantityOkNonNegative(r) == r.itemQuantity >= 0

QuantityOk(r) == r.itemQuantity > 0
PriceOk(r) == r.itemPrice >= 0
\* line 48
NotFutureUnchecked(r, current_date) == r.createdAt # NaT

NotFuture(r, current_date) == r.createdAt # NaT /\ r.createdAt <= current_date

\* lines 51-55
Finish(rows) ==
    [k \in DOMAIN rows |->
        rows[k] @@ [total_price |-> rows[k].itemPrice * rows[k].itemQuantity,
                    is_completed |-> (str_lower(rows[k].status) = "completed"),
                    is_canceled |-> (str_lower(rows[k].status) = "canceled")]]

\* lines 23-24: what pd.to_datetime raises on text that is no timestamp: a
\* ValueError (pandas' own parse error) whose text quotes the offending cell;
\* the module defines no error class of its own
ParseError(cell) ==
    [kind |-> "ValueError",
     message |-> <<"Unknown datetime string format, unable to parse", cell[1]>>]

\* the first cell of a column that does not parse
FirstBad(rows, col) ==
    rows[CHOOSE k \in DOMAIN rows :
            /\ rows[k][col][1] = "bad"
            /\ \A j \in 1..(k - 1) : rows[j][col][1] # "bad"][col]

\* The whole function: what it returns or raises (raised: the kind of the
\* error, message: its text, at: the column whose conversion raised), and
\* what the first object it assigns columns to (processed_df before the
\* first filter) holds at the end.
load_and_preprocess_data(table, clock) ==
    LET processed_df == DfCopy(table)
        r0 == processed_df.val
        r1 == ParseCreated(r0)
        r2 == ParseUpdated(r1)
        r3 == FillMissing(AddTimeFeatures(r2))
        current_date == clock
        notFuture(r) == NotFuture(r, current_date)
        r4 == SelectSeq(SelectSeq(SelectSeq(r3, QuantityOk), PriceOk), notFuture)
        assigned(rows) == IF processed_df.obj = "caller" THEN rows ELSE table
    IN  IF ~Parses(r0, "createdAt")
        THEN [raised |-> ParseError(FirstBad(r0, "createdAt")).kind,
              message |-> ParseError(FirstBad(r0, "createdAt")).message,
              at |-> "createdAt", value |-> <<>>, current_date |-> NaT,
              caller |-> assigned(r0)]
        ELSE IF ~Parses(r1, "updatedAt")
        THEN [raised |-> ParseError(FirstBad(r1, "updatedAt")).kind,
              message |-> ParseError(FirstBad(r1, "updatedAt")).message,
              at |-> "updatedAt", value |-> <<>>, current_date |-> NaT,
              caller |-> assigned(r1)]
        ELSE [raised |-> None, message |-> <<>>, at |-> None,
              value |-> Finish(r4), current_date |-> current_date,
              caller |-> assigned(r3)]

\* ------------------------------------------- forecasting.py
\* lines 31-33: data.set_index('createdAt').resample('D').size(): one row for
\* every calendar day from the first to the last order day, y the number of
\* rows created on it
ResampleDailyNoFill(table) ==
    IF table = <<>> THEN <<>>
    ELSE LET days == {DayOf(table[k].createdAt) : k \in DOMAIN table}
             first == CHOOSE d \in days : \A e \in days : d <= e
             nth(i) == CHOOSE d \in days : Cardinality({e \in days : e < d}) = i - 1
         IN  [i \in 1..Cardinality(days) |->
                [ds |-> Midnight(nth(i)),
                 y |-> Cardinality({k \in DOMAIN table :
                                      DayOf(table[k].createdAt) = nth(i)})]]

ResampleDaily(table) ==
    IF table = <<>> THEN <<>>
    ELSE LET days == {DayOf(table[k].createdAt) : k \in DOMAIN table}
             first == CHOOSE d \in days : \A e \in days : d <= e
             last == CHOOSE d \in days : \A e \in days : e <= d
         IN  [i \in 1..(last - first + 1) |->
                [ds |-> Midnight(first + i - 1),
                 y |-> Cardinality({k \in DOMAIN table :
                                      DayOf(table[k].createdAt) = first + i - 1})]]

\* line 60: Prophet's fit raises ValueError on fewer than two rows
FitRaises(daily_orders) == Len(daily_orders) < 2

\* line 63: Prophet's make_future_dataframe(periods): the history dates, then
\* the next `periods` days after the last of them
MakeFutureShort(daily_orders, periods) ==
    [i \in 1..(Len(daily_orders) + periods - 1) |->
        IF i <= Len(daily_orders) THEN daily_orders[i].ds
        ELSE daily_orders[Len(daily_orders)].ds + Midnight(i - Len(daily_orders))]

MakeFutureDataframe(daily_orders, periods) ==
    [i \in 1..(Len(daily_orders) + periods) |->
        IF i <= Len(daily_orders) THEN daily_orders[i].ds
        ELSE daily_orders[Len(daily_orders)].ds + Midnight(i - Len(daily_orders))]

\* line 67: Prophet's predict: one row per row of `future`; the values are the
\* fitted model's, here any window of the trio cycle (seed)
Predict(future, seed) ==
    [i \in DOMAIN future |-> ForecastPoint(future[i], seed + 7 * (i - 1))]

\* what the call returns or raises, and the DailyCount series it built
forecast_peak_times(table, days_to_forecast, seed) ==
    LET daily_orders == ResampleDaily(table)
    IN  IF FitRaises(daily_orders)
        THEN [raised |-> "ValueError", value |-> <<>>, daily_orders |-> daily_orders]
        ELSE [raised |-> None,
              value |-> Predict(MakeFutureDataframe(daily_orders, days_to_forecast), seed),
              daily_orders |-> daily_orders]

\* ------------------------------------------- ingredient_prediction.py
\* round(x, 2) keeps hundredths
Hundredths == 100

\* line 26: forecast_df.iloc[-days_to_forecast:]
LastRows(forecast_df, days_to_forecast) ==
    LET n == Len(forecast_df)
        first == Max(n - days_to_forecast, 0) + 1
    IN  [k \in 1..(n - first + 1) |-> forecast_df[first + k - 1]]

\* line 29: the items of the history and the summed itemQuantity of each;
\* groupby('itemName') leaves out the rows whose itemName is missing
ItemNames(table) == {table[k].itemName : k \in DOMAIN table} \ {None}

ItemRowCount(table, item) == Cardinality({k \in DOMAIN table : table[k].itemName = item})

ItemQuantitySum(table, item) ==
    SumSet({k \in DOMAIN table : table[k].itemName = item},
           [k \in DOMAIN table |-> table[k].itemQuantity])

TotalQuantity(table) == SumSet(DOMAIN table, [k \in DOMAIN table |-> table[k].itemQuantity])

\* line 36: row['ds'].strftime('%Y-%m-%d'), the calendar day of the timestamp
strftime_ymd(ts) == DayOf(ts)

\* line 37
ForecastedOrdersUpper(row) == row.yhat_upper

ForecastedOrders(row) == row.yhat

\* round(x, 2) of the exact value num / den hundredths (den > 0): the nearest
\* hundredth, a tie going to the even one
Round2(num, den) ==
    LET q == num \div den
        r == num % den
    IN  IF 2 * r < den THEN q
        ELSE IF 2 * r > den THEN q + 1
        ELSE IF q % 2 = 0 THEN q ELSE q + 1

\* lines 43-57: the items that are in the recipe and use the ingredient
ItemsUsing(table, mapping, ingredient) ==
    {item \in ItemNames(table) \cap DOMAIN mapping : ingredient \in DOMAIN mapping[item]}

\* lines 43-61: one day's ingredients.  expected_quantity = forecasted_orders *
\* percentage, ingredient_qty = expected_quantity * qty_per_item, summed over
\* the items and rounded; with percentage = ItemQuantitySum / TotalQuantity the
\* sum is forecasted_orders * sum(ItemQuantitySum * qty_per_item) /
\* (YScale * TotalQuantity) hundredths.
DayIngredientsRenormalised(table, mapping, row) ==
    LET forecasted_orders == ForecastedOrders(row)
        used == ItemNames(table) \cap DOMAIN mapping
        ingredients == UNION {DOMAIN mapping[item] : item \in used}
    IN  [g \in ingredients |->
            Round2(forecasted_orders *
                     SumSet(ItemsUsing(table, mapping, g),
                            [item \in ItemsUsing(table, mapping, g) |->
                                ItemQuantitySum(table, item) * mapping[item][g]]),
                   YScale * SumSet(used, [item \in used |-> ItemQuantitySum(table, item)]))]

DayIngredients(table, mapping, row) ==
    LET forecasted_orders == ForecastedOrders(row)
        used == ItemNames(table) \cap DOMAIN mapping
        ingredients == UNION {DOMAIN mapping[item] : item \in used}
    IN  [g \in ingredients |->
            Round2(forecasted_orders *
                     SumSet(ItemsUsing(table, mapping, g),
                            [item \in ItemsUsing(table, mapping, g) |->
                                ItemQuantitySum(table, item) * mapping[item][g]]),
                   YScale * TotalQuantity(table))]

predict_ingredient_usage(table, forecast_df, mapping, days_to_forecast) ==
    LET forecast_period == LastRows(forecast_df, days_to_forecast)
        dates == {strftime_ymd(forecast_period[k].ds) : k \in DOMAIN forecast_period}
        \* a later row of the same date overwrites an earlier one
        rowOf(date) ==
            forecast_period[CHOOSE k \in DOMAIN forecast_period :
                /\ strftime_ymd(forecast_period[k].ds) = date
                /\ \A j \in DOMAIN forecast_period :
                      strftime_ymd(forecast_period[j].ds) = date => j <= k]
    IN  [date \in dates |-> DayIngredients(table, mapping, rowOf(date))]

\* ------------------------------------------- staffing_optimization.py
OperatingHours == 12

RoleNames == {"Chefs", "Waiters", "Kitchen helpers", "Bartenders"}

\* the staff_types argument: None, or a list of role names
NoStaffTypes == [is_none |-> TRUE, roles |-> {}]
StaffTypes(roles) == [is_none |-> FALSE, roles |-> roles]

\* lines 27-28
EffectiveRoles(staff_types) ==
    IF staff_types.is_none THEN {"Chefs", "Waiters", "Kitchen helpers"}
    ELSE staff_types.roles

\* int() of a non-negative volume: truncation
IntOf(v) == v \div YScale

\* line 38
PredictedOrders(row) == Max(row.yhat, 0)
\* line 41
LowerBoundAbs(row) == IF row.yhat_lower < 0 THEN 0 - row.yhat_lower ELSE row.yhat_lower

LowerBound(row) == Max(row.yhat_lower, 0)
\* line 42
UpperBound(row) == Max(row.yhat_upper, 0)

\* np.ceil(a / b) for a >= 0, b > 0
CeilDiv(a, b) == (a + b - 1) \div b

\* lines 45-50: adjusted_orders = predicted_orders * prep_time_factor,
\* hourly_order_rate = adjusted_orders / 12,
\* max(ceil(hourly_order_rate / orders_per_staff), min_staff)
TotalStaffNoHours(predicted_orders, orders_per_staff, min_staff, prep_time_factor) ==
    Max(CeilDiv(predicted_orders * prep_time_factor,
                YScale * PScale * orders_per_staff), min_staff)

TotalStaffNoMinimum(predicted_orders, orders_per_staff, min_staff, prep_time_factor) ==
    CeilDiv(predicted_orders * prep_time_factor,
            YScale * PScale * OperatingHours * orders_per_staff)

TotalStaffNeeded(predicted_orders, orders_per_staff, min_staff, prep_time_factor) ==
    Max(CeilDiv(predicted_orders * prep_time_factor,
                YScale * PScale * OperatingHours * orders_per_staff), min_staff)

\* lines 63-73: the share of each role, in percent
RoleShare(role) ==
    CASE role = "Chefs" -> 35
      [] role = "Waiters" -> 40
      [] role = "Kitchen helpers" -> 15
      [] role = "Bartenders" -> 10

\* lines 64-73: total_staff_needed * share is a product of doubles, and 0.35
\* is not a double: the nearest one is a little less.  For these totals (those
\* below 1000) the product total * 0.35 comes out below the integer that 35%
\* of the total is (180 * 0.35 = 62.99999999999999), so int() gives one less;
\* for 0.4, 0.15 and 0.1 no total below 1000 does.
ChefsRoundedDown == {180, 340, 360, 660, 680, 700, 720}

\* int(total_staff_needed * share)
IntOfShare(role, total_staff_needed) ==
    ((total_staff_needed * RoleShare(role)) \div 100)
        - (IF role = "Chefs" /\ total_staff_needed \in ChefsRoundedDown THEN 1 ELSE 0)

\* max(int(total_staff_needed * share), 1)
RoleCountNoFloor(role, total_staff_needed) == IntOfShare(role, total_staff_needed)

RoleCount(role, total_staff_needed) == Max(IntOfShare(role, total_staff_needed), 1)

\* lines 37-73: the record of one forecast row
StaffingDay(row, orders_per_staff, min_staff, prep_time_factor, staff_types) ==
    LET predicted_orders == PredictedOrders(row)
        lower_bound == LowerBound(row)
        upper_bound == UpperBound(row)
        total_staff_needed ==
            TotalStaffNeeded(predicted_orders, orders_per_staff, min_staff, prep_time_factor)
    IN  [date |-> row.ds,
         predicted_orders |-> IntOf(predicted_orders),
         lower_bound |-> IntOf(lower_bound),
         upper_bound |-> IntOf(upper_bound),
         total_staff |-> total_staff_needed]
        @@ [role \in RoleNames \cap EffectiveRoles(staff_types) |->
               RoleCount(role, total_staff_needed)]

\* line 31: the rows dated strictly after the time read
ForecastPeriodInclusive(forecast_df, clock) ==
    LET future(row) == row.ds >= clock
    IN  SelectSeq(forecast_df, future)

ForecastPeriod(forecast_df, clock) ==
    LET future(row) == row.ds > clock
    IN  SelectSeq(forecast_df, future)

optimize_staffing(forecast_df, orders_per_staff, min_staff, prep_time_factor, staff_types, clock) ==
    LET forecast_period == ForecastPeriod(forecast_df, clock)
    IN  [k \in DOMAIN forecast_period |->
            StaffingDay(forecast_period[k], orders_per_staff, min_staff,
                        prep_time_factor, staff_types)]

\* the values the staffing controls offer (src/app.py lines 333-364)
OrdersPerStaffVals == {1, 5}
MinStaffVals == {1, 2}
PrepTimeFactorVals == {PScale \div 2, PScale, 2 * PScale}
StaffTypeVals ==
    {NoStaffTypes, StaffTypes({}), StaffTypes({"Chefs", "Waiters"}),
     StaffTypes({"Kitchen helpers", "Bartenders"}), StaffTypes(RoleNames)}

\* ---- calculate_staffing_costs (lines 80-132)
\* hourly_rates maps names to an hourly rate in whole currency units; the
\* tables name staff types and numeric fields of the records
RateTables ==
    {<<>>,
     "Chefs" :> 20 @@ "Waiters" :> 12,
     "Chefs" :> 25 @@ "Waiters" :> 15 @@ "Kitchen helpers" :> 10 @@ "Bartenders" :> 18,
     "Chefs" :> 20 @@ "Managers" :> 40,
     "Waiters" :> 12 @@ "total_staff" :> 1}

ShiftHoursVals == {4, 8}

\* line 116
TypeCostPerHour(count, hourly_rate, shift_hours) == count * hourly_rate

TypeCost(count, hourly_rate, shift_hours) == count * hourly_rate * shift_hours

\* line 115: the keys of the record that hourly_rates names
PaidTypes(day, hourly_rates) == DOMAIN day \cap DOMAIN hourly_rates

\* lines 105-128: the entry of one day
DayCost(day, hourly_rates, shift_hours) ==
    LET costs == [staff_type \in PaidTypes(day, hourly_rates) |->
                     TypeCost(day[staff_type], hourly_rates[staff_type], shift_hours)]
    IN  [date |-> day.date, costs |-> costs, total |-> SumSet(DOMAIN costs, costs)]

\* lines 121-124: the cost of each staff type added up over the days
CostByType(staffing, hourly_rates, shift_hours) ==
    [staff_type \in UNION {PaidTypes(staffing[k], hourly_rates) : k \in DOMAIN staffing} |->
        SumSet({k \in DOMAIN staffing : staff_type \in DOMAIN staffing[k]},
               [k \in DOMAIN staffing |->
                   IF staff_type \in DOMAIN staffing[k]
                   THEN TypeCost(staffing[k][staff_type], hourly_rates[staff_type], shift_hours)
                   ELSE 0])]

\* lines 98-132; a rate for 'date' multiplies a Timestamp and raises TypeError
calculate_staffing_costs(staffing, hourly_rates, shift_hours) ==
    LET daily_costs == [k \in DOMAIN staffing |-> DayCost(staffing[k], hourly_rates, shift_hours)]
    IN  IF staffing # <<>> /\ "date" \in DOMAIN hourly_rates
        THEN [raised |-> "TypeError", daily_costs |-> <<>>, total_cost |-> 0,
              cost_by_type |-> <<>>]
        ELSE [raised |-> None,
              daily_costs |-> daily_costs,
              total_cost |-> SumSet(DOMAIN daily_costs,
                                    [k \in DOMAIN daily_costs |-> daily_costs[k].total]),
              cost_by_type |-> CostByType(staffing, hourly_rates, shift_hours)]

\* ------------------------------------------- notifications.py
\* an optional argument: NoArg is None, Arg(v) a value
NoArg == <<>>
Arg(v) == <<v>>

\* int() of a volume: truncation toward zero
IntTrunc(v) == IF v >= 0 THEN v \div YScale ELSE 0 - ((0 - v) \div YScale)

\* strftime('%A, %b %d'): weekday, month and day of month (the time of day is
\* dropped; the days of the model lie within one year)
strftime_A_b_d(ts) == DayOf(ts)

\* `if threshold:` / `if date_filter:` - None and 0 are false
Truthy(arg) == arg # NoArg /\ arg[1] # 0

RECURSIVE SortByYhatDesc(_)
\* sort_values(by='yhat', ascending=False): equal values keep their order
SortByYhatDesc(rows) ==
    IF rows = <<>> THEN <<>>
    ELSE LET k == CHOOSE i \in DOMAIN rows :
                    /\ \A j \in DOMAIN rows : rows[j].yhat <= rows[i].yhat
                    /\ \A j \in 1..(i - 1) : rows[j].yhat < rows[i].yhat
             rest == [j \in 1..(Len(rows) - 1) |-> IF j < k THEN rows[j] ELSE rows[j + 1]]
         IN  <<rows[k]>> \o SortByYhatDesc(rest)

\* .head(n) / [:n]
Head_n(seq, n) == [k \in 1..(IF Len(seq) < n THEN Len(seq) ELSE n) |-> seq[k]]

\* line 79
NextWeekRows == 7

\* lines 79-86
Peaks(forecast_df, threshold, top_n) ==
    LET next_week == LastRows(forecast_df, NextWeekRows)
        above(row) == row.yhat > threshold[1] * YScale
    IN  IF Truthy(threshold)
        THEN Head_n(SortByYhatDesc(SelectSeq(next_week, above)), top_n)
        ELSE Head_n(SortByYhatDesc(next_week), top_n)

\* lines 60-99: the message, a sequence of lines
format_peak_time_alert(forecast_df, threshold, top_n) ==
    LET peaks == Peaks(forecast_df, threshold, top_n)
    IN  [raised |-> None,
         message |-> <<<<"HOTEL ORDER FORECAST ALERT">>,
                        <<"Expected peak order times for the coming week:">>>>
                     \o [i \in DOMAIN peaks |->
                           <<"peak", i, strftime_A_b_d(peaks[i].ds), IntTrunc(peaks[i].yhat)>>]
                     \o <<<<"This forecast helps you prepare staffing and inventory in advance.">>>>]

\* lines 119-122: the ingredients of the forecast and the total of each
ForecastIngredients(forecast) == UNION {DOMAIN forecast[date] : date \in DOMAIN forecast}

\* the quantity of the first day that needs the ingredient
TotalNeededFirstDay(forecast, ing) ==
    LET days == {date \in DOMAIN forecast : ing \in DOMAIN forecast[date]}
    IN  IF days = {} THEN 0
        ELSE forecast[CHOOSE d \in days : \A e \in days : d <= e][ing]

TotalNeeded(forecast, ing) ==
    SumSet({date \in DOMAIN forecast : ing \in DOMAIN forecast[date]},
           [date \in DOMAIN forecast |->
               IF ing \in DOMAIN forecast[date] THEN forecast[date][ing] ELSE 0])

\* the order the ingredients were inserted in the dicts (here: one fixed order)
IngredientOrder ==
    <<"Flour", "Sugar", "Eggs", "Milk", "Butter", "Cheese", "Rice", "Tomatoes", "Oil">>

RECURSIVE SortByTotalDesc(_, _)
\* line 125: sorted(..., key=quantity, reverse=True): equal totals keep their order
SortByTotalDesc(ings, forecast) ==
    IF ings = <<>> THEN <<>>
    ELSE LET k == CHOOSE i \in DOMAIN ings :
                    /\ \A j \in DOMAIN ings :
                          TotalNeeded(forecast, ings[j]) <= TotalNeeded(forecast, ings[i])
                    /\ \A j \in 1..(i - 1) :
                          TotalNeeded(forecast, ings[j]) < TotalNeeded(forecast, ings[i])
             rest == [j \in 1..(Len(ings) - 1) |-> IF j < k THEN ings[j] ELSE ings[j + 1]]
         IN  <<ings[k]>> \o SortByTotalDesc(rest, forecast)

\* line 126
TopIngredients == 5

\* f"{qty:.1f}": the quantity (hundredths) to the nearest tenth
Format1f(qty) == Round2(qty, Hundredths \div 10)

\* lines 102-137
format_inventory_alert(forecast, threshold_pct) ==
    LET present(ing) == ing \in ForecastIngredients(forecast)
        sorted_ingredients == SortByTotalDesc(SelectSeq(IngredientOrder, present), forecast)
        top_ingredients == Head_n(sorted_ingredients, TopIngredients)
    IN  [raised |-> None,
         message |-> <<<<"INGREDIENT INVENTORY ALERT">>,
                        <<"Top 5 ingredients needed for the coming week:">>>>
                     \o [i \in DOMAIN top_ingredients |->
                           <<"ingredient", i, top_ingredients[i],
                             Format1f(TotalNeeded(forecast, top_ingredients[i]))>>]
                     \o <<<<"Make sure to stock up on these ingredients to meet demand.">>>>]

\* the columns of pd.DataFrame(staffing_results) other than 'date', in order
StaffColumns ==
    <<"predicted_orders", "lower_bound", "upper_bound", "total_staff",
      "Chefs", "Waiters", "Kitchen helpers", "Bartenders">>

\* lines 175-184: the lines of one row
StaffRowLines(rec) ==
    LET has(col) == col \in DOMAIN rec
        cols == SelectSeq(StaffColumns, has)
    IN  <<<<"Date", strftime_A_b_d(rec.date)>>>>
        \o [i \in DOMAIN cols |-> <<"-", cols[i], rec[cols[i]]>>]
        \o <<<<"">>>>

RECURSIVE FlattenLines(_)
FlattenLines(blocks) ==
    IF blocks = <<>> THEN <<>> ELSE Head(blocks) \o FlattenLines(Tail(blocks))

\* lines 160-167: the rows kept. With a date_filter: the rows of its calendar
\* date; without: the rows dated 1, 2 or 3 days after the date read from the clock
StaffRowsKeptFromToday(staffing, date_filter, clock) ==
    LET onDate(rec) == strftime_ymd(rec.date) = strftime_ymd(date_filter[1])
        next3(rec) == strftime_ymd(rec.date) \in {strftime_ymd(clock) + i : i \in 0..3}
    IN  IF date_filter # NoArg
        THEN SelectSeq(staffing, onDate)
        ELSE SelectSeq(staffing, next3)

StaffRowsKept(staffing, date_filter, clock) ==
    LET onDate(rec) == strftime_ymd(rec.date) = strftime_ymd(date_filter[1])
        next3(rec) == strftime_ymd(rec.date) \in {strftime_ymd(clock) + i : i \in 1..3}
    IN  IF date_filter # NoArg
        THEN SelectSeq(staffing, onDate)
        ELSE SelectSeq(staffing, next3)

\* lines 140-188; an empty list makes a frame without a 'date' column, and
\* staff_df['date'] raises KeyError
format_staffing_alert(staffing, date_filter, clock) ==
    LET staff_df == StaffRowsKept(staffing, date_filter, clock)
    IN  IF staffing = <<>>
        THEN [raised |-> "KeyError", message |-> <<>>]
        ELSE [raised |-> None,
              message |-> <<<<"STAFFING REQUIREMENTS ALERT">>>>
                          \o (IF Len(staff_df) = 0
                              THEN <<<<"No staffing data available for the requested period.">>>>
                              ELSE FlattenLines([k \in DOMAIN staff_df |->
                                                   StaffRowLines(staff_df[k])]))
                          \o <<<<"Please adjust staffing schedules accordingly to ensure proper coverage during peak times.">>>>]

\* ------------------------------------------------------------ actions
\* the app script before its first run
NoRun ==
    [pc |-> "idle", count |-> 0, forecast_days |-> 1, failed_at |-> None, error |-> None]

NoStaffingCall ==
    [called |-> FALSE, forecast_df |-> <<>>, orders_per_staff |-> 1, min_staff |-> 1,
     prep_time_factor |-> PScale, staff_types |-> NoStaffTypes, clock |-> 0]

NoCostCall ==
    [called |-> FALSE, staffing_results |-> <<>>, hourly_rates |-> <<>>, shift_hours |-> 8,
     result |-> [raised |-> None, daily_costs |-> <<>>, total_cost |-> 0,
                 cost_by_type |-> <<>>]]

NoIngredientCall ==
    [called |-> FALSE, df |-> <<>>, forecast_df |-> <<>>, ingredient_mapping |-> <<>>,
     days_to_forecast |-> 1]

NoForecastCall ==
    [called |-> FALSE, raised |-> None, df |-> <<>>, days_to_forecast |-> 1,
     daily_orders |-> <<>>]

NoCall ==
    [called |-> FALSE, raised |-> None, message |-> <<>>, at |-> None,
     current_date |-> NaT, before |-> <<>>]

Tick ==
    /\ now < MaxTime
    /\ now' = now + 1
    /\ UNCHANGED <<app, df_raw, df, forecast_result, staffing_results, ingredient_mapping,
                   ingredient_forecast, calls, logs>>

Preprocess ==
    /\ LET res == load_and_preprocess_data(df_raw, now)
       IN  /\ df' = res.value
           /\ df_raw' = res.caller
           /\ pre_call' = [called |-> TRUE, raised |-> res.raised, message |-> res.message,
                           at |-> res.at, current_date |-> res.current_date,
                           before |-> df_raw]
    /\ UNCHANGED <<app, now, forecast_result, staffing_results, staffing_call,
                   ingredient_mapping, ingredient_forecast, ingredient_call,
                   forecast_call, logs, cost_call>>

OptimizeStaffing ==
    /\ \E orders_per_staff \in OrdersPerStaffVals, min_staff \in MinStaffVals,
          prep_time_factor \in PrepTimeFactorVals, staff_types \in StaffTypeVals :
          /\ staffing_results' = optimize_staffing(forecast_result, orders_per_staff,
                                    min_staff, prep_time_factor, staff_types, now)
          /\ staffing_call' =
                [called |-> TRUE, forecast_df |-> forecast_result,
                 orders_per_staff |-> orders_per_staff, min_staff |-> min_staff,
                 prep_time_factor |-> prep_time_factor, staff_types |-> staff_types,
                 clock |-> now]
    /\ UNCHANGED <<app, now, df_raw, df, pre_call, forecast_result,
                   ingredient_mapping, ingredient_forecast, ingredient_call,
                   forecast_call, logs, cost_call>>

CalculateStaffingCosts ==
    /\ \E hourly_rates \in RateTables, shift_hours \in ShiftHoursVals :
          cost_call' =
              [called |-> TRUE, staffing_results |-> staffing_results,
               hourly_rates |-> hourly_rates, shift_hours |-> shift_hours,
               result |-> calculate_staffing_costs(staffing_results, hourly_rates,
                                                   shift_hours)]
    /\ UNCHANGED <<app, now, df_raw, df, pre_call, forecast_result, staffing_results,
                   staffing_call, ingredient_mapping, ingredient_forecast, ingredient_call,
                   forecast_call, logs>>

PredictIngredients ==
    /\ \E days_to_forecast \in 1..MaxHorizon :
          /\ ingredient_forecast' = predict_ingredient_usage(df, forecast_result,
                                        ingredient_mapping, days_to_forecast)
          /\ ingredient_call' =
                [called |-> TRUE, df |-> df, forecast_df |-> forecast_result,
                 ingredient_mapping |-> ingredient_mapping,
                 days_to_forecast |-> days_to_forecast]
    /\ UNCHANGED <<app, now, df_raw, df, pre_call, forecast_result, staffing_results,
                   staffing_call, ingredient_mapping, forecast_call, logs, cost_call>>

ForecastPeakTimes ==
    /\ \E days_to_forecast \in 1..MaxHorizon, seed \in 0..(TrioCycle - 1) :
          LET res == forecast_peak_times(df, days_to_forecast, seed)
          IN  /\ forecast_result' = res.value
              /\ forecast_call' =
                    [called |-> TRUE, raised |-> res.raised, df |-> df,
                     days_to_forecast |-> days_to_forecast,
                     daily_orders |-> res.daily_orders]
    /\ UNCHANGED <<app, now, df_raw, df, pre_call, staffing_results, staffing_call,
                   ingredient_mapping, ingredient_forecast, ingredient_call, logs, cost_call>>

\* the alert previews (src/app.py lines 651-665) and what they are called with
LogRoom == Cardinality(peak_log) + Cardinality(inventory_log) + Cardinality(staffing_log) < MaxCalls

PeakThresholdVals == {NoArg, Arg(0), Arg(10), Arg(100)}
TopNVals == {1, 3}
ThresholdPctVals == {50, 80}
DateFilterVals == {NoArg} \cup {Arg(Midnight(d) + 1) : d \in 1..(DayOf(MaxTime) + 1)}

FormatPeakTimeAlert ==
    /\ LogRoom
    /\ \E threshold \in PeakThresholdVals, top_n \in TopNVals :
          peak_log' = peak_log \cup
              {[forecast_df |-> forecast_result, threshold |-> threshold, top_n |-> top_n,
                result |-> format_peak_time_alert(forecast_result, threshold, top_n)]}
    /\ UNCHANGED <<app, now, df_raw, df, forecast_result, staffing_results, ingredient_mapping,
                   ingredient_forecast, calls, inventory_log, staffing_log>>

FormatInventoryAlert ==
    /\ LogRoom
    /\ \E threshold_pct \in ThresholdPctVals :
          inventory_log' = inventory_log \cup
              {[ingredient_forecast |-> ingredient_forecast, threshold_pct |-> threshold_pct,
                result |-> format_inventory_alert(ingredient_forecast, threshold_pct)]}
    /\ UNCHANGED <<app, now, df_raw, df, forecast_result, staffing_results, ingredient_mapping,
                   ingredient_forecast, calls, peak_log, staffing_log>>

FormatStaffingAlert ==
    /\ LogRoom
    /\ \E date_filter \in DateFilterVals :
          staffing_log' = staffing_log \cup
              {[staffing_results |-> staffing_results, date_filter |-> date_filter,
                result |-> format_staffing_alert(staffing_results, date_filter, now)]}
    /\ UNCHANGED <<app, now, df_raw, df, forecast_result, staffing_results, ingredient_mapping,
                   ingredient_forecast, calls, peak_log, inventory_log>>

\* ------------------------------------------------------- app.py
\* One session of the Streamlit script.  Every run executes the script from
\* the top; its local variables (df, forecast_result, ingredient_forecast,
\* staffing_results, the alert messages) start unset, st.session_state is kept.
\* Lines 123-729 are one try block: run.pc is the statement the run has
\* reached.  The tabs that only draw (data overview, lines 139-191; revenue,
\* lines 423-529) change none of the values below.

\* the files the operator can upload (line 61): valid histories of different
\* items and dates, a history of a single day, and a file whose createdAt
\* does not parse
BadUpload == <<RawRowAt(Len(QtyVals) * Len(PriceVals) * (Len(CreatedVals) - 1))>>

Uploads ==
    {GoodRawTable(a, b, MaxRows) : a \in {0, 1, 4}, b \in {0, 2}}
        \cup {GoodRawTable(0, 1, MaxRows), BadUpload}

\* the statement after `step` in the script
NextStep(step) ==
    CASE step = "preprocess" -> "forecast"
      [] step = "forecast" -> "chart"
      [] step = "chart" -> "ingredients"
      [] step = "ingredients" -> "staffing"
      [] step = "staffing" -> "peak_alert"
      [] step = "peak_alert" -> "inventory_alert"
      [] step = "inventory_alert" -> "staffing_alert"
      [] step = "staffing_alert" -> "done"

Advance(r, step) == [r EXCEPT !.pc = NextStep(step)]

\* lines 727-729: an exception raised anywhere in the try block ends the run;
\* st.error shows str(e)
AbortContinue(r, step, error) == [r EXCEPT !.pc = NextStep(step)]

Abort(r, step, error) == [r EXCEPT !.pc = "aborted", !.failed_at = step, !.error = error]

\* lines 109, 122: a rerun of the script with the uploaded file and the
\* horizon slider's value
StartRun ==
    /\ run.pc \in {"idle", "done", "aborted"}
    /\ run.count < MaxRuns
    /\ df_raw' \in Uploads
    /\ \E forecast_days \in 1..MaxHorizon :
          run' = [pc |-> "preprocess", count |-> run.count + 1,
                  forecast_days |-> forecast_days, failed_at |-> None, error |-> None]
    /\ df' = <<>>
    /\ forecast_result' = <<>>
    /\ staffing_results' = <<>>
    /\ ingredient_forecast' = <<>>
    /\ pre_call' = NoCall
    /\ staffing_call' = NoStaffingCall
    /\ ingredient_call' = NoIngredientCall
    /\ forecast_call' = NoForecastCall
    /\ peak_log' = {}
    /\ inventory_log' = {}
    /\ staffing_log' = {}
    /\ UNCHANGED <<now, ingredient_mapping, session_state, cost_call>>

\* lines 126-127
RunPreprocess ==
    /\ run.pc = "preprocess"
    /\ LET res == load_and_preprocess_data(df_raw, now)
       IN  /\ df' = res.value
           /\ df_raw' = res.caller
           /\ pre_call' = [called |-> TRUE, raised |-> res.raised, message |-> res.message,
                           at |-> res.at, current_date |-> res.current_date,
                           before |-> df_raw]
           /\ IF res.raised # None
              THEN /\ run' = Abort(run, "preprocess", res.raised)
                   /\ UNCHANGED session_state
              ELSE /\ run' = Advance(run, "preprocess")
                   /\ session_state' = session_state \cup {"preprocessed_data"}
    /\ UNCHANGED <<now, forecast_result, staffing_results, staffing_call,
                   ingredient_mapping, ingredient_forecast, ingredient_call,
                   forecast_call, logs, cost_call>>

\* line 196
RunForecast ==
    /\ run.pc = "forecast"
    /\ \E seed \in {1, 3} :
          LET res == forecast_peak_times(df, run.forecast_days, seed)
          IN  /\ forecast_result' = res.value
              /\ forecast_call' =
                    [called |-> TRUE, raised |-> res.raised, df |-> df,
                     days_to_forecast |-> run.forecast_days,
                     daily_orders |-> res.daily_orders]
              /\ run' = IF res.raised # None
                        THEN Abort(run, "forecast", res.raised)
                        ELSE Advance(run, "forecast")
    /\ UNCHANGED <<now, df_raw, df, pre_call, staffing_results, staffing_call,
                   ingredient_mapping, ingredient_forecast, ingredient_call, logs,
                   session_state, cost_call>>

\* lines 199-253: the forecast chart.  Line 204 reads forecast_result['y'];
\* whether the frame Prophet's predict returned carries a column 'y' is the
\* library's doing: without it the read raises KeyError.
PlotForecast ==
    /\ run.pc = "chart"
    /\ \E has_y \in BOOLEAN :
          run' = IF has_y THEN Advance(run, "chart") ELSE Abort(run, "chart", "KeyError")
    /\ UNCHANGED <<now, df_raw, df, forecast_result, staffing_results,
                   ingredient_mapping, ingredient_forecast, calls, logs, session_state>>

\* lines 264-276: the mock recipes: 2 to 5 of the common ingredients per
\* item, each with a quantity between 0.1 and 2.0 (hundredths)
MockRecipes ==
    <<"Flour" :> 100 @@ "Cheese" :> 25,
      "Sugar" :> 10 @@ "Oil" :> 200 @@ "Rice" :> 55,
      "Eggs" :> 30 @@ "Milk" :> 120 @@ "Butter" :> 15 @@ "Tomatoes" :> 60 @@ "Flour" :> 45>>

ItemIndex(item) == CHOOSE k \in DOMAIN ItemVals : ItemVals[k] = item

\* lines 260-276: a recipe for every item of the table; s stands for the
\* random draws
BuildMapping(table, s) ==
    [item \in ItemNames(table) |-> Pick(MockRecipes, s + ItemIndex(item))]

\* line 259
NeedsMappingAlways(keys) == TRUE

NeedsMapping(keys) == "ingredient_mapping" \notin keys

\* src/visualization.py lines 122-134: with no ingredient in any day the
\* frame has no columns and groupby('Ingredient') raises KeyError
PlotIngredientRaises(forecast) ==
    \A date \in DOMAIN forecast : DOMAIN forecast[date] = {}

\* lines 255-322: the ingredient tab
RunIngredients ==
    /\ run.pc = "ingredients"
    /\ \E s \in 0..(Len(MockRecipes) - 1) :
          LET mapping == IF NeedsMapping(session_state)
                         THEN BuildMapping(df, s)
                         ELSE ingredient_mapping
              forecast == predict_ingredient_usage(df, forecast_result, mapping,
                                                   run.forecast_days)
          IN  /\ ingredient_mapping' = mapping
              /\ session_state' = session_state \cup {"ingredient_mapping"}
              /\ ingredient_forecast' = forecast
              /\ ingredient_call' =
                    [called |-> TRUE, df |-> df, forecast_df |-> forecast_result,
                     ingredient_mapping |-> mapping,
                     days_to_forecast |-> run.forecast_days]
              /\ run' = IF PlotIngredientRaises(forecast)
                        THEN Abort(run, "ingredients", "KeyError")
                        ELSE Advance(run, "ingredients")
    /\ UNCHANGED <<now, df_raw, df, pre_call, forecast_result, staffing_results,
                   staffing_call, forecast_call, logs, cost_call>>

\* lines 333-362: the staffing controls (the defaults, and another setting)
StaffingControls ==
    {[orders_per_staff |-> 5, min_staff |-> 2, prep_time_factor |-> PScale,
      staff_types |-> StaffTypes({"Chefs", "Waiters"})],
     [orders_per_staff |-> 1, min_staff |-> 1, prep_time_factor |-> 2 * PScale,
      staff_types |-> StaffTypes(RoleNames)]}

\* lines 382-383: pd.DataFrame([]) has no column 'date'; reading it raises
StaffTableRaises(results) == results = <<>>

\* lines 324-421: the staffing tab
RunStaffing ==
    /\ run.pc = "staffing"
    /\ \E c \in StaffingControls :
          LET results == optimize_staffing(forecast_result, c.orders_per_staff,
                             c.min_staff, c.prep_time_factor, c.staff_types, now)
          IN  /\ staffing_results' = results
              /\ staffing_call' =
                    [called |-> TRUE, forecast_df |-> forecast_result,
                     orders_per_staff |-> c.orders_per_staff, min_staff |-> c.min_staff,
                     prep_time_factor |-> c.prep_time_factor,
                     staff_types |-> c.staff_types, clock |-> now]
              /\ run' = IF StaffTableRaises(results)
                        THEN Abort(run, "staffing", "KeyError")
                        ELSE Advance(run, "staffing")
    /\ UNCHANGED <<now, df_raw, df, pre_call, forecast_result, ingredient_mapping,
                   ingredient_forecast, ingredient_call, forecast_call, logs,
                   session_state, cost_call>>

\* line 652: the threshold of the number input (default 100) when peak
\* alerts are selected, else None; top_n is left at its default
DefaultTopN == 3

PreviewPeakAlert ==
    /\ run.pc = "peak_alert"
    /\ \E threshold \in {NoArg, Arg(100)} :
          LET res == format_peak_time_alert(forecast_result, threshold, DefaultTopN)
          IN  /\ peak_log' =
                    {[forecast_df |-> forecast_result, threshold |-> threshold,
                      top_n |-> DefaultTopN, result |-> res]}
              /\ run' = IF res.raised # None
                        THEN Abort(run, "peak_alert", res.raised)
                        ELSE Advance(run, "peak_alert")
    /\ UNCHANGED <<now, df_raw, df, forecast_result, staffing_results, ingredient_mapping,
                   ingredient_forecast, calls, inventory_log, staffing_log, session_state>>

\* lines 657-658
PreviewInventoryAlert ==
    /\ run.pc = "inventory_alert"
    /\ \E threshold_pct \in {80} :
          LET res == format_inventory_alert(ingredient_forecast, threshold_pct)
          IN  /\ inventory_log' =
                    {[ingredient_forecast |-> ingredient_forecast,
                      threshold_pct |-> threshold_pct, result |-> res]}
              /\ run' = IF res.raised # None
                        THEN Abort(run, "inventory_alert", res.raised)
                        ELSE Advance(run, "inventory_alert")
    /\ UNCHANGED <<now, df_raw, df, forecast_result, staffing_results, ingredient_mapping,
                   ingredient_forecast, calls, peak_log, staffing_log, session_state>>

\* lines 663-664: the date staff_alert_days after now when staffing alerts
\* are selected, else None
PreviewStaffingAlert ==
    /\ run.pc = "staffing_alert"
    /\ \E date_filter \in {NoArg, Arg(now + Midnight(1))} :
          LET res == format_staffing_alert(staffing_results, date_filter, now)
          IN  /\ staffing_log' =
                    {[staffing_results |-> staffing_results, date_filter |-> date_filter,
                      result |-> res]}
              /\ run' = IF res.raised # None
                        THEN Abort(run, "staffing_alert", res.raised)
                        ELSE Advance(run, "staffing_alert")
    /\ UNCHANGED <<now, df_raw, df, forecast_result, staffing_results, ingredient_mapping,
                   ingredient_forecast, calls, peak_log, inventory_log, session_state>>

\* a session: no file uploaded yet, nothing in st.session_state
Init ==
    /\ now = 0
    /\ df_raw = <<>>
    /\ df = <<>>
    /\ pre_call = NoCall
    /\ forecast_result = <<>>
    /\ staffing_results = <<>>
    /\ staffing_call = NoStaffingCall
    /\ cost_call = NoCostCall
    /\ ingredient_mapping = <<>>
    /\ ingredient_forecast = <<>>
    /\ ingredient_call = NoIngredientCall
    /\ forecast_call = NoForecastCall
    /\ peak_log = {}
    /\ inventory_log = {}
    /\ staffing_log = {}
    /\ run = NoRun
    /\ session_state = {}

Next ==
    \/ Tick
    \/ StartRun
    \/ RunPreprocess
    \/ RunForecast
    \/ PlotForecast
    \/ RunIngredients
    \/ RunStaffing
    \/ PreviewPeakAlert
    \/ PreviewInventoryAlert
    \/ PreviewStaffingAlert

Spec == Init /\ [][Next]_vars

InitPre ==
    /\ now \in 0..MaxTime
    /\ df_raw \in RawTables
    /\ df = <<>>
    /\ pre_call = NoCall
    /\ forecast_result = <<>>
    /\ staffing_results = <<>>
    /\ staffing_call = NoStaffingCall
    /\ cost_call = NoCostCall
    /\ ingredient_mapping = <<>>
    /\ ingredient_forecast = <<>>
    /\ ingredient_call = NoIngredientCall
    /\ forecast_call = NoForecastCall
    /\ peak_log = {}
    /\ inventory_log = {}
    /\ staffing_log = {}
    /\ run = NoRun
    /\ session_state = {}

NextPre == Tick \/ (~pre_call.called /\ Preprocess)

SpecPre == InitPre /\ [][NextPre]_vars

\* optimize_staffing applied to forecast series
InitStaff ==
    /\ now \in 0..MaxTime
    /\ df_raw = <<>>
    /\ df = <<>>
    /\ pre_call = NoCall
    /\ forecast_result \in ForecastSeries
    /\ staffing_results = <<>>
    /\ staffing_call = NoStaffingCall
    /\ cost_call = NoCostCall
    /\ ingredient_mapping = <<>>
    /\ ingredient_forecast = <<>>
    /\ ingredient_call = NoIngredientCall
    /\ forecast_call = NoForecastCall
    /\ peak_log = {}
    /\ inventory_log = {}
    /\ staffing_log = {}
    /\ run = NoRun
    /\ session_state = {}

NextStaff == ~staffing_call.called /\ OptimizeStaffing

SpecStaff == InitStaff /\ [][NextStaff]_vars

\* calculate_staffing_costs applied to the plans optimize_staffing returns
\* (orders_per_staff 1, min_staff 1, factor 2.0)
InitCost ==
    /\ now = 0
    /\ df_raw = <<>>
    /\ df = <<>>
    /\ pre_call = NoCall
    /\ forecast_result \in
          {Series(d0, n, seed) : d0 \in 0..1, n \in 1..MaxPoints, seed \in 0..(Len(YVals) - 1)}
    /\ staffing_results \in
          {optimize_staffing(forecast_result, 1, 1, 2 * PScale, staff_types, now) :
              staff_types \in StaffTypeVals}
    /\ staffing_call = NoStaffingCall
    /\ cost_call = NoCostCall
    /\ ingredient_mapping = <<>>
    /\ ingredient_forecast = <<>>
    /\ ingredient_call = NoIngredientCall
    /\ forecast_call = NoForecastCall
    /\ peak_log = {}
    /\ inventory_log = {}
    /\ staffing_log = {}
    /\ run = NoRun
    /\ session_state = {}

NextCost == ~cost_call.called /\ CalculateStaffingCosts

SpecCost == InitCost /\ [][NextCost]_vars

\* the cleaned tables of valid histories, as load_and_preprocess_data returns them
CleanTables(times) ==
    {load_and_preprocess_data(GoodRawTable(a, b, n), MaxTime).value :
        a \in 0..(2 * Len(GoodItemVals) - 1), b \in times, n \in 0..MaxRows}

\* predict_ingredient_usage applied to histories, forecast series and recipes
InitIngr ==
    /\ now = MaxTime
    /\ df_raw = <<>>
    /\ df \in CleanTables({0})
    /\ pre_call = NoCall
    /\ forecast_result \in
          {Series(DayOf(MaxTime) + 1, n, seed) : n \in 1..MaxPoints, seed \in 0..(Len(YVals) - 1)}
    /\ staffing_results = <<>>
    /\ staffing_call = NoStaffingCall
    /\ cost_call = NoCostCall
    /\ ingredient_mapping \in RecipeTables
    /\ ingredient_forecast = <<>>
    /\ ingredient_call = NoIngredientCall
    /\ forecast_call = NoForecastCall
    /\ peak_log = {}
    /\ inventory_log = {}
    /\ staffing_log = {}
    /\ run = NoRun
    /\ session_state = {}

NextIngr == ~ingredient_call.called /\ PredictIngredients

SpecIngr == InitIngr /\ [][NextIngr]_vars

\* forecast_peak_times applied to cleaned histories
InitFc ==
    /\ now = MaxTime
    /\ df_raw = <<>>
    /\ df \in CleanTables(0..MaxTime)
    /\ pre_call = NoCall
    /\ forecast_result = <<>>
    /\ staffing_results = <<>>
    /\ staffing_call = NoStaffingCall
    /\ cost_call = NoCostCall
    /\ ingredient_mapping = <<>>
    /\ ingredient_forecast = <<>>
    /\ ingredient_call = NoIngredientCall
    /\ forecast_call = NoForecastCall
    /\ peak_log = {}
    /\ inventory_log = {}
    /\ staffing_log = {}
    /\ run = NoRun
    /\ session_state = {}

NextFc == ~forecast_call.called /\ ForecastPeakTimes

SpecFc == InitFc /\ [][NextFc]_vars

\* the alert formatters applied to the outputs of one analysis of a history
\* (orders_per_staff 5, min_staff 2, factor 1.0, roles Chefs and Waiters)
AlertHistory == load_and_preprocess_data(GoodRawTable(1, 0, MaxRows), MaxTime).value

InitAlert ==
    /\ now = 0
    /\ df_raw = <<>>
    /\ df = AlertHistory
    /\ pre_call = NoCall
    /\ forecast_result \in
          {Series(d0, n, seed) : d0 \in 0..2, n \in 1..MaxPoints, seed \in {0, 1, 3}}
    /\ staffing_results =
          optimize_staffing(forecast_result, 5, 2, PScale, StaffTypes({"Chefs", "Waiters"}), now)
    /\ staffing_call = NoStaffingCall
    /\ cost_call = NoCostCall
    /\ ingredient_mapping \in
          {r \in RecipeTables : "Pizza" \in DOMAIN r /\ "Burger" \in DOMAIN r}
    /\ ingredient_forecast =
          predict_ingredient_usage(df, forecast_result, ingredient_mapping, MaxHorizon)
    /\ ingredient_call = NoIngredientCall
    /\ forecast_call = NoForecastCall
    /\ peak_log = {}
    /\ inventory_log = {}
    /\ staffing_log = {}
    /\ run = NoRun
    /\ session_state = {}

NextAlert == Tick \/ FormatPeakTimeAlert \/ FormatInventoryAlert \/ FormatStaffingAlert

SpecAlert == InitAlert /\ [][NextAlert]_vars

\* =============================================================== claims
Returned == pre_call.called /\ pre_call.raised = None

\* what the claim says of one raw row: kept iff its quantity is present and
\* positive, its price is missing or non-negative, and its createdAt is a
\* timestamp not after the processing time
RawKept(r, t) ==
    /\ r.itemQuantity # NaN /\ r.itemQuantity > 0
    /\ (r.itemPrice = NaN \/ r.itemPrice >= 0)
    /\ r.createdAt[1] = "ts" /\ r.createdAt[2] <= t

RawKeptRows(t) == {k \in DOMAIN pre_call.before : RawKept(pre_call.before[k], t)}

\* C1: every row returned by load_and_preprocess_data has itemQuantity > 0,
\* itemPrice >= 0 and createdAt <= the processing time read inside the call;
\* a missing quantity or price counts as 0 before the filter, so the rows
\* returned are those raw rows whose quantity is present and positive and
\* whose price is missing (retained as 0) or non-negative.
C1_CleanedRows ==
    Returned =>
        /\ \A k \in DOMAIN df :
              /\ df[k].itemQuantity > 0
              /\ df[k].itemPrice >= 0
              /\ df[k].createdAt # NaT
              /\ df[k].createdAt <= pre_call.current_date
        /\ Len(df) = Cardinality(RawKeptRows(pre_call.current_date))
        /\ Cardinality({k \in DOMAIN df : df[k].itemPrice = 0})
             = Cardinality({k \in RawKeptRows(pre_call.current_date) :
                              pre_call.before[k].itemPrice \in {NaN, 0}})

C1_Witness ==
    /\ Returned
    /\ \E k \in DOMAIN pre_call.before : pre_call.before[k].itemQuantity = NaN
    /\ \E k \in RawKeptRows(pre_call.current_date) : pre_call.before[k].itemPrice = NaN
    /\ \E k \in DOMAIN df : df[k].itemPrice = 0
    /\ Len(df) < Len(pre_call.before)

\* C8: load_and_preprocess_data leaves the caller's table unchanged, whether
\* it returns or raises: same rows, same columns, same values.
C8_CallerTableUnchanged == pre_call.called => df_raw = pre_call.before

C8_Witness ==
    /\ Returned
    /\ Len(df) = 1
    /\ Len(df_raw) = 2
    /\ \E k \in DOMAIN df_raw : df_raw[k].itemPrice = NaN
    /\ "total_price" \in DOMAIN df[1]

\* C17 (as claimed): when parsing createdAt or updatedAt fails,
\* load_and_preprocess_data fails with an error of kind DataFormatError that
\* identifies the offending column, and returns no cleaned table.
C17_DataFormatError ==
    (pre_call.called /\ pre_call.raised # None) =>
        /\ pre_call.raised = "DataFormatError"
        /\ \E i \in DOMAIN pre_call.message : pre_call.message[i] = pre_call.at
        /\ df = <<>>

\* ---- optimize_staffing
StaffRecords == Range(staffing_results)

\* the forecast point a staffing record was computed from
RowOf(rec) == CHOOSE row \in Range(staffing_call.forecast_df) : row.ds = rec.date

\* the enabled role set of the call: the list passed, or the default three
EnabledRoles ==
    IF staffing_call.staff_types.is_none
    THEN {"Chefs", "Waiters", "Kitchen helpers"}
    ELSE staffing_call.staff_types.roles

\* C2: with min_staff >= 1 and orders_per_staff >= 1, every record has
\* total_staff >= min_staff, every enabled role appears with count >= 1, and
\* no role outside the enabled set appears.
C2_StaffFloors ==
    (staffing_call.called /\ staffing_call.min_staff >= 1
                          /\ staffing_call.orders_per_staff >= 1) =>
        \A rec \in StaffRecords :
            /\ rec.total_staff >= staffing_call.min_staff
            /\ \A role \in EnabledRoles : role \in DOMAIN rec /\ rec[role] >= 1
            /\ \A role \in RoleNames \ EnabledRoles : role \notin DOMAIN rec

C2_Witness ==
    /\ staffing_call.called
    /\ staffing_call.staff_types = StaffTypes({"Kitchen helpers", "Bartenders"})
    /\ \E rec \in StaffRecords :
          /\ rec.total_staff = 5
          /\ staffing_call.min_staff = 2
          /\ rec["Bartenders"] = 1
          /\ "Chefs" \notin DOMAIN rec

\* C3: a record whose forecast point satisfied yhat_lower <= yhat <= yhat_upper
\* satisfies 0 <= lower_bound <= predicted_orders <= upper_bound, also when
\* some or all of the three inputs are negative.
C3_BoundsOrdered ==
    staffing_call.called =>
        \A rec \in StaffRecords :
            (RowOf(rec).yhat_lower <= RowOf(rec).yhat /\ RowOf(rec).yhat <= RowOf(rec).yhat_upper)
                => /\ 0 <= rec.lower_bound
                   /\ rec.lower_bound <= rec.predicted_orders
                   /\ rec.predicted_orders <= rec.upper_bound

C3_Witness ==
    /\ staffing_call.called
    /\ \E rec \in StaffRecords :
          /\ RowOf(rec).yhat_lower < 0
          /\ RowOf(rec).yhat > 10 * YScale /\ RowOf(rec).yhat < 11 * YScale
          /\ RowOf(rec).yhat_upper = 50 * YScale
          /\ rec.lower_bound = 0 /\ rec.predicted_orders = 10 /\ rec.upper_bound = 50

\* C9: total_staff = max(ceil((max(yhat, 0) * prep_time_factor / 12) /
\* orders_per_staff), min_staff): total_staff is the least integer that is at
\* least min_staff and at least the hourly rate over orders_per_staff, a
\* function of yhat and the three parameters only (the bounds do not enter);
\* a point estimate of 10 with min_staff 2, orders_per_staff 5 and factor 1.0
\* gives 2.
C9_TotalStaffFormula ==
    staffing_call.called =>
        \A rec \in StaffRecords :
            LET y == IF RowOf(rec).yhat > 0 THEN RowOf(rec).yhat ELSE 0
                load == y * staffing_call.prep_time_factor
                unit == YScale * PScale * 12 * staffing_call.orders_per_staff
            IN  /\ rec.total_staff >= staffing_call.min_staff
                /\ rec.total_staff * unit >= load
                /\ rec.total_staff > staffing_call.min_staff
                      => (rec.total_staff - 1) * unit < load
                /\ (/\ RowOf(rec).yhat = 10 * YScale
                    /\ staffing_call.min_staff = 2
                    /\ staffing_call.orders_per_staff = 5
                    /\ staffing_call.prep_time_factor = PScale) => rec.total_staff = 2

C9_Witness ==
    /\ staffing_call.called
    /\ staffing_call.min_staff = 1
    /\ staffing_call.orders_per_staff = 5
    /\ \E rec \in StaffRecords : rec.total_staff = 2 /\ RowOf(rec).yhat = 50 * YScale

\* the fixed share of a role, in percent
SharePercent ==
    "Chefs" :> 35 @@ "Waiters" :> 40 @@ "Kitchen helpers" :> 15 @@ "Bartenders" :> 10

\* C18 (as claimed): in every staffing record each enabled role's count is
\* max(floor(share * total_staff), 1) with the shares Chefs 0.35, Waiters
\* 0.40, Kitchen helpers 0.15, Bartenders 0.10, whichever other roles are
\* enabled: the count c of a role is 1 when share * total_staff < 1, and
\* otherwise the integer with c <= share * total_staff < c + 1.
C18_RoleShares ==
    staffing_call.called =>
        \A rec \in StaffRecords : \A role \in EnabledRoles :
            LET c == rec[role]
                load == SharePercent[role] * rec.total_staff
            IN  IF load < 100 THEN c = 1
                ELSE 100 * c <= load /\ load < 100 * (c + 1)

\* the role counts of a record added up
RoleCountSum(rec) ==
    SumSet(DOMAIN rec \cap RoleNames, [role \in DOMAIN rec \cap RoleNames |-> rec[role]])

\* C30: in every record computed with min_staff >= 1, the count of each
\* enabled role is at most total_staff, whatever the total and the set of
\* enabled roles (the counts need not add up to total_staff).
C30_RoleAtMostTotal ==
    (staffing_call.called /\ staffing_call.min_staff >= 1) =>
        \A rec \in StaffRecords :
            \A role \in EnabledRoles \cap RoleNames :
                /\ role \in DOMAIN rec
                /\ rec[role] <= rec.total_staff

\* a record whose total is the minimum 1 with all four roles enabled (the
\* counts add up to more than the total), and a record of a large total
\* whose counts add up to less
C30_Witness ==
    /\ staffing_call.called
    /\ staffing_call.min_staff = 1
    /\ EnabledRoles = RoleNames
    /\ \E rec \in StaffRecords :
          /\ rec.total_staff = 1
          /\ RoleCountSum(rec) > rec.total_staff
    /\ \E rec \in StaffRecords :
          /\ rec.total_staff > 10
          /\ RoleCountSum(rec) < rec.total_staff

\* a record in which a role has the whole total
C30_WitnessEqual ==
    /\ staffing_call.called
    /\ staffing_call.min_staff >= 1
    /\ \E rec \in StaffRecords :
          \E role \in DOMAIN rec \cap RoleNames : rec[role] = rec.total_staff

\* the dates of a sequence of rows or records, in order
Dates(seq, field) == [k \in DOMAIN seq |-> seq[k][field]]

\* the positions of the forecast points dated strictly after the time read
FuturePositions ==
    {k \in DOMAIN staffing_call.forecast_df :
        staffing_call.forecast_df[k].ds > staffing_call.clock}

\* C11: optimize_staffing returns exactly one record for each forecast point
\* dated strictly after the time read inside the call, in the date order of
\* the series, and no record for a point dated at or before that time.
C11_FutureRecordsOnly ==
    staffing_call.called =>
        /\ Len(staffing_results) = Cardinality(FuturePositions)
        /\ \A rec \in StaffRecords : rec.date > staffing_call.clock
        /\ \A k \in FuturePositions :
              Cardinality({j \in DOMAIN staffing_results :
                              staffing_results[j].date = staffing_call.forecast_df[k].ds}) = 1
        /\ \A i, j \in DOMAIN staffing_results :
              i < j => staffing_results[i].date < staffing_results[j].date

C11_Witness ==
    /\ staffing_call.called
    /\ Len(staffing_call.forecast_df) = 2
    /\ staffing_call.forecast_df[1].ds = staffing_call.clock
    /\ Len(staffing_results) = 1
    /\ staffing_results[1].date = staffing_call.forecast_df[2].ds

\* ---- predict_ingredient_usage
\* the forecast rows the call projected: the last days_to_forecast rows
IngredientRows ==
    {ingredient_call.forecast_df[k] :
        k \in {j \in DOMAIN ingredient_call.forecast_df :
                  j > Len(ingredient_call.forecast_df) - ingredient_call.days_to_forecast}}

\* the summed itemQuantity of an item in the history of the call
HistoryQuantity(item) ==
    SumSet({k \in DOMAIN ingredient_call.df : ingredient_call.df[k].itemName = item},
           [k \in DOMAIN ingredient_call.df |-> ingredient_call.df[k].itemQuantity])

HistoryItems == {ingredient_call.df[k].itemName : k \in DOMAIN ingredient_call.df}

\* the items of the history that are in the recipe and contain ingredient g
RecipeItemsWith(g) ==
    {i \in HistoryItems \cap DOMAIN ingredient_call.ingredient_mapping :
        g \in DOMAIN ingredient_call.ingredient_mapping[i]}

AllIngredients ==
    UNION {DOMAIN ingredient_call.ingredient_mapping[i] :
             i \in DOMAIN ingredient_call.ingredient_mapping}

\* C4 (as claimed): every quantity of the IngredientForecast is non-negative,
\* also for a forecast day whose point estimate is negative.
C4_QuantitiesNonNegative ==
    ingredient_call.called =>
        \A date \in DOMAIN ingredient_forecast :
            \A g \in DOMAIN ingredient_forecast[date] : ingredient_forecast[date][g] >= 0

\* C6: for every forecast day whose point estimate is 0, the quantities
\* returned for that day sum to 0.
C6_ZeroVolumeZeroTotal ==
    ingredient_call.called =>
        \A row \in IngredientRows :
            row.yhat = 0 =>
                /\ DayOf(row.ds) \in DOMAIN ingredient_forecast
                /\ SumSet(DOMAIN ingredient_forecast[DayOf(row.ds)],
                          ingredient_forecast[DayOf(row.ds)]) = 0

C6_Witness ==
    /\ ingredient_call.called
    /\ \E row \in IngredientRows :
          /\ row.yhat = 0
          /\ Cardinality(DOMAIN ingredient_forecast[DayOf(row.ds)]) >= 2
    /\ \E row \in IngredientRows :
          /\ row.yhat > 0
          /\ \E g \in DOMAIN ingredient_forecast[DayOf(row.ds)] :
                ingredient_forecast[DayOf(row.ds)][g] > 0

\* C10: quantity[d][g] = round2(sum over the items i in the recipe that
\* contain g of yhat(d) * share(i) * recipe[i][g]), share(i) = summed
\* itemQuantity of i over the summed itemQuantity of all items: the value
\* returned is within half a hundredth of that sum, a day lists exactly the
\* ingredients of the history's items that are in the recipe, and a single
\* item Burger with recipe {Flour: 1.0} and point estimate 50 gives exactly
\* {Flour: 50.0}.
C10_IngredientFormula ==
    ingredient_call.called =>
        /\ DOMAIN ingredient_forecast = {DayOf(row.ds) : row \in IngredientRows}
        /\ \A row \in IngredientRows :
              LET day == ingredient_forecast[DayOf(row.ds)]
                  total == SumSet(HistoryItems, [i \in HistoryItems |-> HistoryQuantity(i)])
                  \* the sum, times YScale * total, in hundredths
                  exact(g) ==
                      SumSet(RecipeItemsWith(g),
                             [i \in RecipeItemsWith(g) |->
                                row.yhat * HistoryQuantity(i)
                                  * ingredient_call.ingredient_mapping[i][g]])
                  gap(g) == day[g] * YScale * total - exact(g)
              IN  /\ DOMAIN day = {g \in AllIngredients : RecipeItemsWith(g) # {}}
                  /\ \A g \in DOMAIN day :
                        /\ 2 * gap(g) <= YScale * total
                        /\ 2 * gap(g) >= 0 - YScale * total
                  /\ (/\ HistoryItems = {"Burger"}
                      /\ ingredient_call.ingredient_mapping = ("Burger" :> ("Flour" :> 100))
                      /\ row.yhat = 50 * YScale)
                        => day = ("Flour" :> 50 * Hundredths)

C10_Witness ==
    /\ ingredient_call.called
    /\ Cardinality(HistoryItems) = 2
    /\ \E i \in HistoryItems : HistoryQuantity(i) = 3
    /\ \E row \in IngredientRows :
          /\ row.yhat > 10 * YScale /\ row.yhat < 11 * YScale
          /\ \E g \in DOMAIN ingredient_forecast[DayOf(row.ds)] :
                /\ Cardinality(RecipeItemsWith(g)) = 2
                /\ ingredient_forecast[DayOf(row.ds)][g] > 0

C10_WitnessBurger ==
    /\ ingredient_call.called
    /\ HistoryItems = {"Burger"}
    /\ ingredient_call.ingredient_mapping = ("Burger" :> ("Flour" :> 100))
    /\ \E row \in IngredientRows :
          /\ row.yhat = 50 * YScale
          /\ ingredient_forecast[DayOf(row.ds)] = ("Flour" :> 5000)

\* the items of the history that the recipe table does not have
AbsentItems == HistoryItems \ DOMAIN ingredient_call.ingredient_mapping

\* C19: an item of the order history that is not in the recipe table
\* contributes nothing to any ingredient quantity and raises no error: every
\* projected day has an entry, an ingredient appears only if an item of the
\* recipe has it, each quantity is the rounded sum of the terms of the items
\* in the recipe alone, with the shares taken over all items of the history
\* (the absent ones included), and a day for which no historical item is in
\* the recipe has an empty ingredient mapping.
C19_AbsentItemsSkipped ==
    ingredient_call.called =>
        \A row \in IngredientRows :
            /\ DayOf(row.ds) \in DOMAIN ingredient_forecast
            /\ LET day == ingredient_forecast[DayOf(row.ds)]
                   present == HistoryItems \ AbsentItems
                   all_quantity == SumSet(HistoryItems, [i \in HistoryItems |-> HistoryQuantity(i)])
                   with(g) == {i \in present : g \in DOMAIN ingredient_call.ingredient_mapping[i]}
                   terms(g) ==
                       SumSet(with(g),
                              [i \in with(g) |->
                                  row.yhat * HistoryQuantity(i)
                                    * ingredient_call.ingredient_mapping[i][g]])
               IN  /\ present = {} => day = <<>>
                   /\ \A g \in DOMAIN day :
                         /\ with(g) # {}
                         /\ 2 * (day[g] * YScale * all_quantity - terms(g)) <= YScale * all_quantity
                         /\ 2 * (terms(g) - day[g] * YScale * all_quantity) <= YScale * all_quantity

C19_Witness ==
    /\ ingredient_call.called
    /\ AbsentItems = {"Pizza"}
    /\ HistoryQuantity("Pizza") = 2
    /\ HistoryQuantity("Burger") = 3
    /\ \E row \in IngredientRows :
          /\ row.yhat = 10 * YScale
          /\ ingredient_forecast[DayOf(row.ds)] = ("Flour" :> 6 * Hundredths)

C19_WitnessEmpty ==
    /\ ingredient_call.called
    /\ HistoryItems # {}
    /\ AbsentItems = HistoryItems
    /\ ingredient_call.ingredient_mapping # <<>>
    /\ \E row \in IngredientRows : ingredient_forecast[DayOf(row.ds)] = <<>>

\* every item of the history has a recipe of one ingredient with quantity 1
UnitRecipes ==
    \A i \in ItemNames(ingredient_call.df) :
        /\ i \in DOMAIN ingredient_call.ingredient_mapping
        /\ \E g \in DOMAIN ingredient_call.ingredient_mapping[i] :
              ingredient_call.ingredient_mapping[i] = (g :> Hundredths)

\* C26 (as claimed): for every non-empty cleaned table the item shares used
\* by predict_ingredient_usage (summed itemQuantity of the item over the
\* summed itemQuantity of the table) are each in (0, 1] and sum to exactly 1;
\* so when every item has a recipe of a single ingredient with quantity 1, a
\* day's quantities add up to the day's point estimate (each of them rounded
\* to the hundredth).
C26_SharesSumToOne ==
    (ingredient_call.called /\ ingredient_call.df # <<>>) =>
        LET table == ingredient_call.df
            items == ItemNames(table)
        IN  /\ \A i \in items :
                  /\ ItemQuantitySum(table, i) > 0
                  /\ ItemQuantitySum(table, i) <= TotalQuantity(table)
            /\ SumSet(items, [i \in items |-> ItemQuantitySum(table, i)]) = TotalQuantity(table)
            /\ UnitRecipes =>
                  \A row \in IngredientRows :
                      LET day == ingredient_forecast[DayOf(row.ds)]
                          gap == SumSet(DOMAIN day, day) * YScale - row.yhat * Hundredths
                      IN  /\ 2 * gap <= YScale * Cardinality(DOMAIN day)
                          /\ 2 * gap >= 0 - YScale * Cardinality(DOMAIN day)

\* ---- the analysis run (app.py)
\* the dates of the last H points of the run's forecast, H the run's horizon
SuffixDates ==
    {forecast_result[k].ds :
        k \in {j \in DOMAIN forecast_result : j > Len(forecast_result) - run.forecast_days}}

\* C12 (as claimed): in a run with horizon H over a cleaned history of any
\* date range, the staffing plan has a record for every one of the H
\* forecast-suffix days, so the staffing plan and the ingredient forecast
\* cover the same H days.
C12_PlanCoversHorizon ==
    (run.pc # "idle" /\ staffing_call.called) =>
        /\ Len(staffing_results) = run.forecast_days
        /\ {rec.date : rec \in StaffRecords} = SuffixDates
        /\ {DayOf(rec.date) : rec \in StaffRecords} = DOMAIN ingredient_forecast

\* the dates of the fitted (historical) points of the run's forecast
HistoricalDates ==
    {forecast_result[k].ds :
        k \in {j \in DOMAIN forecast_result : j <= Len(forecast_result) - run.forecast_days}}

\* C27: in a run (the clock never goes backwards) every record of the
\* staffing plan is for a forecast-suffix day, none for a historical day of
\* the series, and the plan has at most H records.
C27_PlanOnlySuffixDays ==
    (run.pc # "idle" /\ staffing_call.called) =>
        /\ \A rec \in StaffRecords :
              /\ rec.date \in SuffixDates
              /\ rec.date \notin HistoricalDates
        /\ Len(staffing_results) <= run.forecast_days
        /\ pre_call.current_date <= staffing_call.clock

\* a run whose series has fitted days, whose plan has a record, and in which
\* time passed between the preprocessing and the staffing step
C27_Witness ==
    /\ run.pc # "idle"
    /\ staffing_call.called
    /\ HistoricalDates # {}
    /\ Len(staffing_results) >= 1
    /\ pre_call.current_date < staffing_call.clock

\* a run whose plan leaves out a suffix day that is not after the clock
C27_WitnessShort ==
    /\ run.pc # "idle"
    /\ staffing_call.called
    /\ Len(staffing_results) >= 1
    /\ Len(staffing_results) < run.forecast_days

\* the components of a run after the forecast, and whether the run has
\* computed the result of each
Computed(component) ==
    CASE component = "ingredients" -> ingredient_call.called
      [] component = "staffing" -> staffing_call.called
      [] component = "alerts" -> peak_log # {} /\ inventory_log # {} /\ staffing_log # {}

ComponentOf(step) ==
    CASE step = "ingredients" -> "ingredients"
      [] step = "staffing" -> "staffing"
      [] step \in {"peak_alert", "inventory_alert", "staffing_alert"} -> "alerts"
      [] OTHER -> None

\* C13 (as claimed): within one run a failure raised in the ingredient
\* projection, the staffing step or an alert formatter is isolated to that
\* component: the results of the other two are still computed and shown in
\* the same run.
C13_FailureIsolated ==
    (run.pc = "aborted" /\ ComponentOf(run.failed_at) # None) =>
        \A c \in {"ingredients", "staffing", "alerts"} \ {ComponentOf(run.failed_at)} :
            Computed(c)

\* C14: if preprocessing or forecasting raises in a run, the run is aborted
\* with the error surfaced, and in that run no ingredient forecast, no
\* staffing plan and no alert text is computed.
C14_EarlyFailureAborts ==
    (run.pc # "idle" /\ (\/ (pre_call.called /\ pre_call.raised # None)
                         \/ (forecast_call.called /\ forecast_call.raised # None))) =>
        /\ run.pc = "aborted"
        /\ run.error \in {pre_call.raised, forecast_call.raised} \ {None}
        /\ ~ingredient_call.called /\ ingredient_forecast = <<>>
        /\ ~staffing_call.called /\ staffing_results = <<>>
        /\ peak_log = {} /\ inventory_log = {} /\ staffing_log = {}

C14_Witness ==
    /\ run.pc = "aborted"
    /\ run.count = 2
    /\ run.failed_at = "forecast"
    /\ run.error = "ValueError"
    /\ Len(df) >= 1
    /\ "ingredient_mapping" \in session_state

C14_WitnessPreprocess ==
    /\ run.pc = "aborted"
    /\ run.failed_at = "preprocess"
    /\ pre_call.at = "createdAt"

\* C16: the recipe table is read-only: predict_ingredient_usage leaves its
\* ingredient_mapping argument unchanged, and across the runs of one session
\* (same or different uploaded data, horizons and settings) the session's
\* item-to-ingredient mapping, once constructed, is never modified.
C16_MappingReadOnly ==
    [][/\ ("ingredient_mapping" \in session_state) => ingredient_mapping' = ingredient_mapping
       /\ (ingredient_call' # ingredient_call /\ ingredient_call'.called)
             => ingredient_mapping' = ingredient_call'.ingredient_mapping]_vars

C16_Witness ==
    /\ run.count = 2
    /\ ingredient_call.called
    /\ "ingredient_mapping" \in session_state
    /\ DOMAIN ingredient_mapping = {"Burger", "Pizza"}
    /\ ItemNames(df) = {"Burger"}
    /\ run.forecast_days = 2
    /\ \E date \in DOMAIN ingredient_forecast : ingredient_forecast[date] # <<>>

\* ---- forecast_peak_times
ForecastReturned == forecast_call.called /\ forecast_call.raised = None

\* the order days of the table forecast_peak_times was called with
OrderDays == {DayOf(forecast_call.df[k].createdAt) : k \in DOMAIN forecast_call.df}

RowsOn(day) == {k \in DOMAIN forecast_call.df : DayOf(forecast_call.df[k].createdAt) = day}

\* C20: the DailyCount series built by forecast_peak_times has exactly one
\* row for every calendar day from the earliest to the latest order day of
\* the cleaned table, with no gap and no duplicate day; a day without order
\* rows has count 0 and every other day's count is the number of order rows
\* created on that day.
C20_DailyCountComplete ==
    forecast_call.called =>
        LET daily == forecast_call.daily_orders
            between == {d \in 0..(DayOf(MaxTime) + 1) :
                          /\ \E e \in OrderDays : e <= d
                          /\ \E e \in OrderDays : d <= e}
        IN  /\ \A d \in between :
                  Cardinality({i \in DOMAIN daily : daily[i].ds = Midnight(d)}) = 1
            /\ \A i \in DOMAIN daily :
                  /\ HourOf(daily[i].ds) = 0
                  /\ DayOf(daily[i].ds) \in between
                  /\ daily[i].y = Cardinality(RowsOn(DayOf(daily[i].ds)))
            /\ \A i, j \in DOMAIN daily : i < j => daily[i].ds < daily[j].ds

C20_Witness ==
    /\ forecast_call.called
    /\ Cardinality(OrderDays) = 2
    /\ Len(forecast_call.daily_orders) = 3
    /\ forecast_call.daily_orders[1].y = 1
    /\ forecast_call.daily_orders[2].y = 0
    /\ forecast_call.daily_orders[3].y = 1

C20_WitnessSameDay ==
    /\ forecast_call.called
    /\ Len(forecast_call.df) = 2
    /\ Len(forecast_call.daily_orders) = 1
    /\ forecast_call.daily_orders[1].y = 2

\* C5: the series returned for horizon H has one point per DailyCount row,
\* dated as that row, followed by exactly H points dated on the H consecutive
\* days after the last historical day.
C5_SeriesLength ==
    ForecastReturned =>
        LET hist == Len(forecast_call.daily_orders)
            H == forecast_call.days_to_forecast
        IN  /\ Len(forecast_result) = hist + H
            /\ \A k \in 1..hist : forecast_result[k].ds = forecast_call.daily_orders[k].ds
            /\ \A j \in 1..H :
                  /\ hist + j \in DOMAIN forecast_result
                  /\ DayOf(forecast_result[hist + j].ds)
                        = DayOf(forecast_call.daily_orders[hist].ds) + j
                  /\ HourOf(forecast_result[hist + j].ds) = 0

C5_Witness ==
    /\ ForecastReturned
    /\ forecast_call.days_to_forecast = 2
    /\ Len(forecast_call.daily_orders) = 3
    /\ \E k \in DOMAIN forecast_call.daily_orders : forecast_call.daily_orders[k].y = 0
    /\ Len(forecast_result) = 5

\* ---- staffing costs
RECURSIVE SeqSum(_)
SeqSum(seq) == IF seq = <<>> THEN 0 ELSE Head(seq) + SeqSum(Tail(seq))

\* count * hourly_rate * shift_hours of one field, 0 when the record or the
\* rate table lacks it
FieldCost(rec, rates, hours, field) ==
    IF field \in DOMAIN rec /\ field \in DOMAIN rates
    THEN rec[field] * rates[field] * hours ELSE 0

RoleCost(rec, rates, hours) ==
    FieldCost(rec, rates, hours, "Chefs") + FieldCost(rec, rates, hours, "Waiters")
        + FieldCost(rec, rates, hours, "Kitchen helpers")
        + FieldCost(rec, rates, hours, "Bartenders")

NumericFields == {"predicted_orders", "lower_bound", "upper_bound", "total_staff"}

NamedFieldCost(rec, rates, hours) ==
    FieldCost(rec, rates, hours, "predicted_orders") + FieldCost(rec, rates, hours, "lower_bound")
        + FieldCost(rec, rates, hours, "upper_bound")
        + FieldCost(rec, rates, hours, "total_staff")

C25_WitnessNamedField ==
    /\ cost_call.called
    /\ "total_staff" \in DOMAIN cost_call.hourly_rates
    /\ cost_call.staffing_results # <<>>
    /\ \E k \in DOMAIN cost_call.staffing_results :
          cost_call.result.daily_costs[k].total >
              RoleCost(cost_call.staffing_results[k], cost_call.hourly_rates,
                       cost_call.shift_hours)

\* ---- alert formatters
\* C15 (as claimed): given a threshold greater than every point estimate of the series,
\* format_peak_time_alert does not raise and returns exactly the static
\* header lines followed by the static closing line, with no numbered peak
\* line between them.
C15_NoPeakAboveThreshold ==
    \A c \in peak_log :
        (/\ c.threshold # NoArg
         /\ \A k \in DOMAIN c.forecast_df : c.forecast_df[k].yhat < c.threshold[1] * YScale)
            => /\ c.result.raised = None
               /\ c.result.message =
                     <<<<"HOTEL ORDER FORECAST ALERT">>,
                       <<"Expected peak order times for the coming week:">>,
                       <<"This forecast helps you prepare staffing and inventory in advance.">>>>

\* the numbered peak lines of a message, and the considered row a line shows
PeakLines(message) == SelectSeq(message, LAMBDA line : line[1] = "peak")

ConsideredRows(c) == LastRows(c.forecast_df, NextWeekRows)

RowShown(c, line) ==
    CHOOSE row \in Range(ConsideredRows(c)) : strftime_A_b_d(row.ds) = line[3]

\* the rows a call may list: those above the threshold when one is supplied
\* (0 included), all the considered rows when none is
Eligible(c) ==
    IF c.threshold = NoArg THEN Range(ConsideredRows(c))
    ELSE {row \in Range(ConsideredRows(c)) : row.yhat > c.threshold[1] * YScale}

\* C21 (as claimed): with a numeric threshold supplied (0 included) every
\* listed day has a point estimate strictly above it; at most top_n days are
\* listed, they are the top_n highest of the eligible days, in non-increasing
\* order of point estimate; without a threshold the eligible days are all
\* the considered days.
C21_ThresholdFilter ==
    \A c \in peak_log :
        LET lines == PeakLines(c.result.message)
            shown == [i \in DOMAIN lines |-> RowShown(c, lines[i])]
            size == Cardinality(Eligible(c))
        IN  /\ Len(lines) = (IF size < c.top_n THEN size ELSE c.top_n)
            /\ \A i \in DOMAIN lines :
                  /\ \E row \in Range(ConsideredRows(c)) : strftime_A_b_d(row.ds) = lines[i][3]
                  /\ shown[i] \in Eligible(c)
                  /\ lines[i][2] = i
            /\ \A i, j \in DOMAIN lines : i < j => shown[i].yhat >= shown[j].yhat
            /\ \A row \in Eligible(c) \ Range(shown) :
                  \A i \in DOMAIN lines : row.yhat <= shown[i].yhat

\* the numbered ingredient lines of a message
IngredientLines(message) == SelectSeq(message, LAMBDA line : line[1] = "ingredient")

\* the quantity of an ingredient summed over all the days of a forecast
SumOverDays(forecast, g) ==
    SumSet({d \in DOMAIN forecast : g \in DOMAIN forecast[d]},
           [d \in DOMAIN forecast |-> IF g \in DOMAIN forecast[d] THEN forecast[d][g] ELSE 0])

SelectedPositions(plan, date_filter, clock) ==
    {k \in DOMAIN plan :
        IF date_filter # NoArg
        THEN DayOf(plan[k].date) = DayOf(date_filter[1])
        ELSE DayOf(plan[k].date) - DayOf(clock) \in 1..3}

DateLines(message) == SelectSeq(message, LAMBDA line : line[1] = "Date")

\* a call renders exactly the records at the positions in S, in plan order:
\* one Date line per record and one line per field of the record
RendersExactly(c, S) ==
    LET plan == c.staffing_results
        dates == DateLines(c.result.message)
        kept == SelectSeq([k \in DOMAIN plan |-> k], LAMBDA k : k \in S)
    IN  /\ Len(dates) = Len(kept)
        /\ \A i \in DOMAIN kept :
              /\ dates[i][2] = DayOf(plan[kept[i]].date)
              /\ \A col \in DOMAIN plan[kept[i]] \ {"date"} :
                    \E n \in DOMAIN c.result.message :
                        c.result.message[n] = <<"-", col, plan[kept[i]][col]>>
        /\ \A k \in DOMAIN plan \ S :
              \A i \in DOMAIN dates : dates[i][2] # DayOf(plan[k].date)

\* C23: format_staffing_alert with a date_filter renders exactly the records
\* whose calendar date is the date_filter's; without one, exactly the records
\* dated 1, 2 or 3 days after the current date; no other record appears.
C23_StaffingSelection ==
    [][\A c \in staffing_log' \ staffing_log :
          RendersExactly(c, SelectedPositions(c.staffing_results, c.date_filter, now))]_vars

\* a call without date_filter and a call with one, each on a plan of two
\* records of which it renders one and leaves the other out
C23_Witness ==
    \E a, b \in staffing_log :
        /\ a.date_filter = NoArg /\ b.date_filter # NoArg
        /\ Len(a.staffing_results) = 2 /\ Len(b.staffing_results) = 2
        /\ Len(DateLines(a.result.message)) = 1
        /\ Len(DateLines(b.result.message)) = 1

\* n is v (in 1/YScale) rounded to the nearest integer, a tie going either way
IsNearestInteger(n, v) ==
    LET diff == IF n * YScale >= v THEN n * YScale - v ELSE v - n * YScale
    IN  2 * diff <= YScale

\* C24 (as claimed): the order count on each peak line is the day's point
\* estimate rounded to the nearest integer (10.6 is shown as 11); a
\* non-negative estimate is never shown as less than its rounding.
C24_CountRounded ==
    \A c \in peak_log :
        LET lines == PeakLines(c.result.message)
        IN  \A i \in DOMAIN lines : IsNearestInteger(lines[i][4], RowShown(c, lines[i]).yhat)

\* C28 (as claimed): every day listed in the peak-time alert of a run is a
\* forecast-suffix (predicted) day of the series, never a historical day,
\* whatever the horizon H of the run.
C28_PeakDaysAreFuture ==
    run.pc # "idle" =>
        \A c \in peak_log :
            LET lines == PeakLines(c.result.message)
            IN  \A i \in DOMAIN lines :
                    /\ RowShown(c, lines[i]).ds \in SuffixDates
                    /\ RowShown(c, lines[i]).ds \notin HistoricalDates

\* C29 (as claimed): for every staffing plan, the empty plan included, when
\* no record matches the requested date or the default window
\* format_staffing_alert does not raise and returns the header, the sentence
\* "No staffing data available for the requested period." and the closing
\* sentence; and a run that displays an empty staffing plan does not fail.
C29_NoMatchMessage ==
    /\ \A c \in staffing_log :
          DateLines(c.result.message) = <<>> =>
              /\ c.result.raised = None
              /\ c.result.message =
                    <<<<"STAFFING REQUIREMENTS ALERT">>,
                      <<"No staffing data available for the requested period.">>,
                      <<"Please adjust staffing schedules accordingly to ensure proper coverage during peak times.">>>>
    /\ (run.pc # "idle" /\ staffing_call.called /\ staffing_results = <<>>) =>
          run.pc # "aborted"

\* C7 (as claimed): each alert formatter is a pure function of its arguments:
\* two calls with identical arguments return identical results, whatever the
\* wall-clock time of each call, also with the optional argument omitted.
C7_FormattersPure ==
    /\ \A a, b \in peak_log :
          (a.forecast_df = b.forecast_df /\ a.threshold = b.threshold /\ a.top_n = b.top_n)
              => a.result = b.result
    /\ \A a, b \in inventory_log :
          (a.ingredient_forecast = b.ingredient_forecast /\ a.threshold_pct = b.threshold_pct)
              => a.result = b.result
    /\ \A a, b \in staffing_log :
          (a.staffing_results = b.staffing_results /\ a.date_filter = b.date_filter)
              => a.result = b.result

=============================================================================
